---- MODULE Spec2Model ----
(***************************************************************************)
(* The proc_dash dashboard (src/proc_dash/app.py) as a state machine.      *)
(*                                                                         *)
(* State: the component properties of the Dash layout that the callbacks   *)
(* read and write (the four dcc.Store's, the upload buttons, the filter    *)
(* form, the datatable, the records figure) and the set of callbacks the   *)
(* renderer has requested and not yet run.  One action per callback and    *)
(* one per user gesture.  A callback runs when it is requested and none of *)
(* its Inputs is an Output of another requested callback; when it returns, *)
(* every callback that has one of the written properties as an Input is    *)
(* requested.                                                              *)
(*                                                                         *)
(* Callbacks run one at a time and atomically; the order in which ready    *)
(* callbacks run is free.  A user gesture is made on the page at rest (no   *)
(* callback requested).  Replacing the upload buttons does not request     *)
(* process_bagel again: it is the callback that led to the replacement.    *)
(*                                                                         *)
(* proc_dash.utility and proc_dash.plotting are not part of the sources at *)
(* hand; the operators that stand for their functions (under the headings  *)
(* proc_dash.utility and proc_dash.plotting below) are written from the    *)
(* design text.                                                            *)
(***************************************************************************)
EXTENDS Integers, Sequences, FiniteSets, TLC

\* ---------------------------------------------------------------- bounds

\* The number of user gestures (uploads, filter selections) in a run.
MaxEvents == 3

\* ------------------------------------------------------- Python's values

\* None, and a value that is not None.
None == <<>>
Some(x) == <<x>>
Val(o) == o[1]

\* dash.no_update: the output keeps the value it has.
no_update == <<"no_update", "no_update">>

Apply(old, new) == IF new = no_update THEN old ELSE new

\* The value of the session dropdown: None (never set), the string ""
\* (reset_selections) or the list of the sessions selected.
SessNone == [tag |-> "None", val |-> {}]
SessStr == [tag |-> "str", val |-> {}]
SessList(S) == [tag |-> "list", val |-> S]

\* Python's truth value of a dropdown value: None, "" and [] are false.
Truthy(v) == v.val # {}

Min(a, b) == IF a < b THEN a ELSE b

Range(s) == {s[i] : i \in 1..Len(s)}

\* -------------------------------------------------------- the input files

\* The CSV files a user may pick.  Each is named by its file name; its
\* contents are the uploaded payload.
Files == {"imaging_bagel.csv", "imaging_b.csv", "pheno_bagel.csv",
          "dup_bagel.csv", "empty.csv"}

Contents(f) == "data:text/csv;base64," \o f

Row(p, s, pl, st) ==
    [participant_id |-> p, session |-> s, pipeline |-> pl, status |-> st]

\* The schema a file is written in.
FileSchema(f) == IF f = "pheno_bagel.csv" THEN "phenotypic" ELSE "imaging"

\* The rows of a file, in file order.
FileRows(f) ==
    CASE f = "imaging_bagel.csv" ->
           << Row("p1", "s1", "A", "SUCCESS"), Row("p1", "s1", "B", "FAIL"),
              Row("p1", "s2", "A", "SUCCESS"), Row("p1", "s2", "B", "SUCCESS"),
              Row("p2", "s1", "A", "FAIL"),    Row("p2", "s1", "B", "SUCCESS") >>
      [] f = "imaging_b.csv" ->
           << Row("p1", "s1", "B", "SUCCESS"), Row("p3", "s1", "B", "FAIL") >>
      [] f = "pheno_bagel.csv" ->
           << Row("p1", "s1", "X", "SUCCESS"), Row("p2", "s1", "X", "FAIL") >>
      [] f = "dup_bagel.csv" ->
           << Row("p1", "s1", "A", "SUCCESS"), Row("p1", "s1", "A", "FAIL") >>
      [] OTHER -> << >>

\* The pipelines (or assessments) of a file, in the order the grouping of
\* extract_pipelines yields them.
FilePipelines(f) ==
    CASE f = "imaging_bagel.csv" -> <<"A", "B">>
      [] f = "imaging_b.csv"     -> <<"B">>
      [] f = "pheno_bagel.csv"   -> <<"X">>
      [] f = "dup_bagel.csv"     -> <<"A">>
      [] OTHER                   -> << >>

\* ------------------------------------------------------ proc_dash.utility

\* The keys of PIPE_COMPLETE_STATUS_SHORT_DESC.
PIPE_COMPLETE_STATUS_SHORT_DESC ==
    <<"SUCCESS", "FAIL", "INCOMPLETE", "UNAVAILABLE">>

\* The file whose payload is c.
Decode(c) == CHOOSE f \in Files : Contents(f) = c

\* parse_csv_contents: the table and no error, or no table and the reason
\* the file does not conform to the schema.
parse_csv_contents(contents, filename, schema) ==
    LET f == Decode(contents) IN
    IF FileSchema(f) = schema
    THEN [bagel |-> Some([rows |-> FileRows(f), pipelines |-> FilePipelines(f)]),
          upload_error |-> None]
    ELSE [bagel |-> None,
          upload_error |->
              Some("The selected .csv is missing the required columns of the "
                   \o schema \o " schema.")]

\* bagel["session"].unique().tolist(): the sessions in order of first
\* appearance.
RECURSIVE Unique(_)
Unique(s) ==
    IF s = << >> THEN << >>
    ELSE LET init == Unique(SubSeq(s, 1, Len(s) - 1))
             last == s[Len(s)]
         IN IF last \in Range(init) THEN init ELSE Append(init, last)

Sessions(rows) == Unique([i \in 1..Len(rows) |-> rows[i].session])

\* Two rows of the table for one participant, session and pipeline: the
\* pivot of get_pipelines_overview raises.
HasDuplicates(rows) ==
    \E i, j \in 1..Len(rows) :
        /\ i < j
        /\ rows[i].participant_id = rows[j].participant_id
        /\ rows[i].session = rows[j].session
        /\ rows[i].pipeline = rows[j].pipeline

\* get_pipelines_overview: one record per participant and session, with the
\* status of each pipeline.
get_pipelines_overview(bagel) ==
    LET rows == bagel.rows
        keys == {<<rows[i].participant_id, rows[i].session>> : i \in 1..Len(rows)}
    IN { [participant_id |-> k[1], session |-> k[2],
          st |-> [pl \in Range(bagel.pipelines) |->
                    LET i == CHOOSE i \in 1..Len(rows) :
                                 /\ rows[i].participant_id = k[1]
                                 /\ rows[i].session = k[2]
                                 /\ rows[i].pipeline = pl
                    IN rows[i].status]] : k \in keys }

\* extract_pipelines: the rows of each pipeline, keyed by pipeline in
\* grouping order.
extract_pipelines(bagel) ==
    [keys |-> bagel.pipelines,
     recs |-> [pl \in Range(bagel.pipelines) |->
                 {bagel.rows[i] : i \in {j \in 1..Len(bagel.rows) :
                                             bagel.rows[j].pipeline = pl}}]]

\* A record matches the status selections: every pipeline with a selected
\* status has that status in the record.
MatchesStatus(rec, status_values) ==
    \A pl \in DOMAIN status_values :
        status_values[pl] # None => rec.st[pl] = Val(status_values[pl])

\* filter_records.  With no session selected every session of the data
\* counts as selected.
filter_records(data, session_values, operator_value, status_values) ==
    LET sess == IF ~Truthy(session_values) THEN {r.session : r \in data}
                ELSE session_values.val
        Good(p) == \A s \in sess :
                      \E r \in data : /\ r.participant_id = p
                                      /\ r.session = s
                                      /\ MatchesStatus(r, status_values)
    IN IF operator_value = "AND"
       THEN {r \in data : r.session \in sess /\ Good(r.participant_id)}
       ELSE {r \in data : r.session \in sess /\ MatchesStatus(r, status_values)}

count_unique_subjects(df) == Cardinality({r.participant_id : r \in df})

count_unique_records(df) ==
    Cardinality({<<r.participant_id, r.session>> : r \in df})

\* ----------------------------------------------------- proc_dash.plotting

\* transform_active_data_to_long: one row per record and pipeline.
transform_active_data_to_long(data) ==
    {[participant_id |-> r.participant_id, session |-> r.session,
      pipeline_name |-> pl, pipeline_complete |-> r.st[pl]] :
        r \in data, pl \in UNION {DOMAIN q.st : q \in data}}

\* populate_empty_records_pipeline_status_plot: zero records for every
\* pipeline and status.
populate_empty_records_pipeline_status_plot(pipelines, statuses) ==
    {[pipeline_name |-> pl, pipeline_complete |-> st, records |-> 0] :
        pl \in pipelines, st \in statuses}

\* ------------------------------------------------------------ the layout

\* id of each dcc.Upload of UPLOAD_BUTTONS.
UPLOAD_BUTTONS ==
    << [type |-> "upload-data", index |-> "imaging", btn_idx |-> 0],
       [type |-> "upload-data", index |-> "phenotypic", btn_idx |-> 1] >>

EMPTY_FIGURE_PROPS == [data |-> {}, layout |-> {}, frames |-> {}]

Callbacks ==
    {"process_bagel", "reset_upload_buttons", "update_session_filter",
     "create_pipeline_status_dropdowns", "update_outputs",
     "update_matching_rows", "reset_selections",
     "update_overview_status_fig_for_records"}

\* The Input properties each callback declares.
Inputs(cb) ==
    CASE cb = "process_bagel" -> {"upload-data.contents"}
      [] cb = "reset_upload_buttons" -> {"memory-filename.data"}
      [] cb = "update_session_filter" -> {"memory-overview.data"}
      [] cb = "create_pipeline_status_dropdowns" -> {"memory-pipelines.data"}
      [] cb = "update_outputs" ->
           {"memory-overview.data", "session-dropdown.value",
            "select-operator.value", "pipeline-status-dropdown.value"}
      [] cb = "update_matching_rows" ->
           {"interactive-datatable.columns",
            "interactive-datatable.derived_virtual_data"}
      [] cb = "reset_selections" -> {"memory-filename.data"}
      [] cb = "update_overview_status_fig_for_records" ->
           {"interactive-datatable.data"}

\* The Output properties each callback declares.
Outputs(cb) ==
    CASE cb = "process_bagel" ->
           {"memory-filename.data", "memory-sessions.data",
            "memory-overview.data", "memory-pipelines.data",
            "upload-message.children", "interactive-datatable.export_format"}
      [] cb = "reset_upload_buttons" -> {"upload-buttons.children"}
      [] cb = "update_session_filter" ->
           {"session-dropdown.options", "advanced-filter-form.style"}
      [] cb = "create_pipeline_status_dropdowns" ->
           {"pipeline-dropdown-container.children",
            "interactive-datatable.style_filter_conditional"}
      [] cb = "update_outputs" ->
           {"interactive-datatable.columns", "interactive-datatable.data"}
      [] cb = "update_matching_rows" ->
           {"matching-participants.children", "matching-records.children"}
      [] cb = "reset_selections" ->
           {"input-filename.children", "interactive-datatable.filter_query",
            "session-dropdown.value"}
      [] cb = "update_overview_status_fig_for_records" ->
           {"fig-pipeline-status.figure", "fig-pipeline-status.style"}

\* The callbacks that wait: one of their Inputs is an Output of another
\* requested callback.
Blocked(cb, requested) ==
    \E o \in requested \ {cb} : Outputs(o) \cap Inputs(cb) # {}

\* The callbacks requested when the properties W change.
Triggered(W) == {cb \in Callbacks : Inputs(cb) \cap W # {}}

\* The native filter of the datatable (filter_action="native"): the queries
\* a user may type, and the rows a query keeps.
FilterQueries == {"", "{participant_id} = p1"}

ApplyQuery(data, q) ==
    IF q = "" THEN data ELSE {r \in data : r.participant_id = "p1"}

\* interactive-datatable.derived_virtual_data: the rows the table shows.
derived_virtual_data(data, q) ==
    IF data = None THEN {} ELSE ApplyQuery(Val(data), q)

\* ------------------------------------------------------------- the state

VARIABLES
    memory_filename,        \* dcc.Store memory-filename
    memory_sessions,        \* dcc.Store memory-sessions
    memory_overview,        \* dcc.Store memory-overview
    memory_pipelines,       \* dcc.Store memory-pipelines
    upload_message,         \* upload-message.children
    export_format,          \* interactive-datatable.export_format
    upload_contents,        \* contents of each upload button
    upload_filename,        \* filename of each upload button
    triggered,              \* ctx.triggered_id of the pending process_bagel
    input_filename,         \* input-filename.children
    filter_query,           \* interactive-datatable.filter_query
    session_value,          \* session-dropdown.value
    select_operator,        \* select-operator.value
    session_options,        \* session-dropdown.options
    form_style,             \* advanced-filter-form.style (display)
    pipeline_dropdowns,     \* the dropdowns of pipeline-dropdown-container
    tbl_columns,            \* interactive-datatable.columns
    tbl_data,               \* interactive-datatable.data
    matching_participants,  \* matching-participants.children
    matching_records,       \* matching-records.children
    fig_figure,             \* fig-pipeline-status.figure
    fig_style,              \* fig-pipeline-status.style (display)
    pending,                \* the callbacks requested and not yet run
    nEvents,                \* history: the user gestures so far
    lastFired,              \* history: the callback or gesture of the last step
    lastUpload,             \* history: the button and file of the last upload
    unprocessed,            \* history: uploads process_bagel has not yet seen
    filter_args,            \* history: what update_outputs last gave filter_records
    obs                     \* history: one earlier run of process_bagel

stores == <<memory_filename, memory_sessions, memory_overview,
            memory_pipelines, upload_message, export_format>>
uploads == <<upload_contents, upload_filename, triggered>>
selections == <<input_filename, filter_query, session_value>>
form == <<session_options, form_style>>
table == <<tbl_columns, tbl_data>>
counts == <<matching_participants, matching_records>>
figure == <<fig_figure, fig_style>>
history == <<nEvents, lastUpload, unprocessed, filter_args, obs>>

vars == <<stores, uploads, selections, select_operator, form,
          pipeline_dropdowns, table, counts, figure, pending, lastFired,
          history>>

\* ---------------------------------------------------------- the callbacks

\* process_bagel, no file uploaded: nothing to show, and the file name and
\* the export format stay as they are.
process_bagel_no_contents ==
    [filename |-> no_update, sessions |-> None, overview |-> None,
     pipelines |-> None, message |-> Some("Upload a CSV file to begin."),
     export_format |-> no_update]

\* A variant of process_bagel_try that does not parse again a file whose
\* name is the one already stored.
process_bagel_try_cached(value, fname, schema) ==
    LET parsed == parse_csv_contents(value, fname, schema)
        raised == /\ parsed.upload_error = None
                  /\ HasDuplicates(Val(parsed.bagel).rows)
    IN IF memory_filename = Some(fname) /\ memory_overview # None
       THEN [upload_error |-> None,
             session_list |-> Val(memory_sessions),
             overview_df |-> Val(memory_overview).data,
             pipelines_dict |-> Val(memory_pipelines)]
       ELSE IF raised
       THEN [upload_error |->
                 Some("Something went wrong while processing this file.")]
       ELSE IF parsed.upload_error # None
       THEN [upload_error |-> parsed.upload_error]
       ELSE [upload_error |-> None,
             session_list |-> Sessions(Val(parsed.bagel).rows),
             overview_df |-> get_pipelines_overview(Val(parsed.bagel)),
             pipelines_dict |-> extract_pipelines(Val(parsed.bagel))]

\* process_bagel, the try block: the error to report, and with no error the
\* sessions, the overview and the pipelines of the file.  An exception
\* raised inside the block is caught and becomes the error.
process_bagel_try(value, fname, schema) ==
    LET parsed == parse_csv_contents(value, fname, schema)
        raised == /\ parsed.upload_error = None
                  /\ HasDuplicates(Val(parsed.bagel).rows)
    IN IF raised
       THEN [upload_error |->
                 Some("Something went wrong while processing this file.")]
       ELSE IF parsed.upload_error # None
       THEN [upload_error |-> parsed.upload_error]
       ELSE [upload_error |-> None,
             session_list |-> Sessions(Val(parsed.bagel).rows),
             overview_df |-> get_pipelines_overview(Val(parsed.bagel)),
             pipelines_dict |-> extract_pipelines(Val(parsed.bagel))]

\* A variant of process_bagel_error that leaves the file name store alone.
process_bagel_error_keeps_filename(fname, upload_error) ==
    [filename |-> no_update, sessions |-> None, overview |-> None,
     pipelines |-> None,
     message |-> Some("Error: " \o upload_error \o " Please try again."),
     export_format |-> Some("none")]

\* process_bagel, the return for a file with an error.
process_bagel_error(fname, upload_error) ==
    [filename |-> Some(fname), sessions |-> None, overview |-> None,
     pipelines |-> None,
     message |-> Some("Error: " \o upload_error \o " Please try again."),
     export_format |-> Some("none")]

\* A variant of process_bagel_parsed that stores every overview as imaging.
process_bagel_parsed_type_imaging(fname, schema, t) ==
    [filename |-> Some(fname),
     sessions |-> Some(t.session_list),
     overview |-> Some([type |-> "imaging", data |-> t.overview_df]),
     pipelines |-> Some(t.pipelines_dict),
     message |-> None,
     export_format |-> Some("csv")]

\* process_bagel, the return for a file parsed without error.
process_bagel_parsed(fname, schema, t) ==
    [filename |-> Some(fname),
     sessions |-> Some(t.session_list),
     overview |-> Some([type |-> schema, data |-> t.overview_df]),
     pipelines |-> Some(t.pipelines_dict),
     message |-> None,
     export_format |-> Some("csv")]

\* process_bagel: the six outputs, for the contents and file names of the
\* upload buttons and the button that triggered the call.
process_bagel(contents, filename, trig) ==
    IF \A i \in 1..Len(contents) : contents[i] = None
    THEN process_bagel_no_contents
    ELSE
      LET btn == Val(trig)
          fname == Val(filename[btn.btn_idx + 1])
          t == process_bagel_try(Val(contents[btn.btn_idx + 1]), fname,
                                 btn.index)
      IN IF t.upload_error # None
         THEN process_bagel_error(fname, Val(t.upload_error))
         ELSE process_bagel_parsed(fname, btn.index, t)

\* A variant of reset_upload_buttons that leaves the buttons as they are.
reset_upload_buttons_not_replaced(filename) ==
    [contents |-> upload_contents, filename |-> upload_filename]

\* reset_upload_buttons: the children of upload-buttons, fresh from
\* UPLOAD_BUTTONS (no contents, no file name).
reset_upload_buttons(filename) ==
    [contents |-> [i \in 1..Len(UPLOAD_BUTTONS) |-> None],
     filename |-> [i \in 1..Len(UPLOAD_BUTTONS) |-> None]]

\* update_session_filter
update_session_filter(parsed_data, session_list) ==
    IF parsed_data = None
    THEN [options |-> << >>, style |-> "none"]
    ELSE [options |-> Val(session_list), style |-> "block"]

\* create_pipeline_status_dropdowns: one dropdown per pipeline of the
\* pipelines store, in its order, with no status selected.
create_pipeline_status_dropdowns(pipelines_dict, parsed_data) ==
    IF pipelines_dict = None \/ Val(parsed_data).type = "phenotypic"
    THEN << >>
    ELSE [i \in 1..Len(Val(pipelines_dict).keys) |->
            [index |-> Val(pipelines_dict).keys[i], value |-> None]]

\* dict(zip(keys, values)): pairs by position, as many as the shorter has.
Zip(keys, values) ==
    LET n == Min(Len(keys), Len(values)) IN
    [k \in {keys[i] : i \in 1..n} |->
        values[CHOOSE i \in 1..n : keys[i] = k /\ \A j \in (i+1)..n : keys[j] # k]]

\* data.columns of the overview dataframe.
Columns(data) ==
    IF data = {} THEN {}
    ELSE {"participant_id", "session"} \cup UNION {DOMAIN r.st : r \in data}

\* update_outputs: the columns and the data of the table, and the arguments
\* of its call of filter_records (None when it does not call it).
update_outputs(parsed_data, session_values, session_operator, status_values, pipelines_dict) ==
    IF parsed_data = None
    THEN [columns |-> None, data |-> None, passed |-> None]
    ELSE
      LET data == Val(parsed_data).data IN
      IF Truthy(session_values)
         \/ \E i \in 1..Len(status_values) : status_values[i] # None
      THEN LET pipeline_selected_filters ==
                   Zip(Val(pipelines_dict).keys, status_values)
           IN [columns |-> Some(Columns(data)),
               data |-> Some(filter_records(data, session_values,
                                            session_operator,
                                            pipeline_selected_filters)),
               passed |-> Some([session_values |-> session_values,
                                operator_value |-> session_operator,
                                status_values |-> pipeline_selected_filters])]
      ELSE [columns |-> Some(Columns(data)), data |-> Some(data),
            passed |-> None]

\* A variant of update_matching_rows that counts records for participants.
update_matching_rows_counts_records(columns, virtual_data) ==
    IF columns # None /\ Val(columns) # {}
    THEN [participants |->
              Some("Participants matching filter: "
                   \o ToString(count_unique_records(virtual_data))),
          records |->
              Some("Records matching filter: "
                   \o ToString(count_unique_records(virtual_data)))]
    ELSE [participants |-> Some(""), records |-> Some("")]

\* update_matching_rows
update_matching_rows(columns, virtual_data) ==
    IF columns # None /\ Val(columns) # {}
    THEN [participants |->
              Some("Participants matching filter: "
                   \o ToString(count_unique_subjects(virtual_data))),
          records |->
              Some("Records matching filter: "
                   \o ToString(count_unique_records(virtual_data)))]
    ELSE [participants |-> Some(""), records |-> Some("")]

\* A variant of reset_selections that resets only after a file was parsed.
reset_selections_on_success(filename) ==
    IF filename # None /\ memory_overview # None
    THEN [prevent_update |-> FALSE,
          input_filename |-> Some("Input file: " \o Val(filename)),
          filter_query |-> "", session_value |-> SessStr]
    ELSE [prevent_update |-> TRUE]

\* reset_selections; raise PreventUpdate leaves every output as it is.
reset_selections(filename) ==
    IF filename # None
    THEN [prevent_update |-> FALSE,
          input_filename |-> Some("Input file: " \o Val(filename)),
          filter_query |-> "", session_value |-> SessStr]
    ELSE [prevent_update |-> TRUE]

\* A variant of GroupBySize that counts the participants of each group.
GroupByParticipants(long) ==
    {[pipeline_name |-> g[1], pipeline_complete |-> g[2],
      records |-> Cardinality({r.participant_id : r \in
                                 {q \in long : /\ q.pipeline_name = g[1]
                                               /\ q.pipeline_complete = g[2]}})] :
        g \in {<<r.pipeline_name, r.pipeline_complete>> : r \in long}}

\* .groupby(["pipeline_name", "pipeline_complete"]).size()
\* .reset_index(name="records")
GroupBySize(long) ==
    {[pipeline_name |-> g[1], pipeline_complete |-> g[2],
      records |-> Cardinality({r \in long : /\ r.pipeline_name = g[1]
                                            /\ r.pipeline_complete = g[2]})] :
        g \in {<<r.pipeline_name, r.pipeline_complete>> : r \in long}}

\* plot_pipeline_status_by_records: one bar segment per row of the counts.
plot_pipeline_status_by_records(status_counts) ==
    [data |-> status_counts, layout |-> {"stack"}, frames |-> {}]

\* update_overview_status_fig_for_records
update_overview_status_fig_for_records(data, pipelines_dict, parsed_data) ==
    IF data = None \/ Val(parsed_data).type = "phenotypic"
    THEN [figure |-> EMPTY_FIGURE_PROPS, style |-> "none"]
    ELSE
      LET status_counts ==
              IF Val(data) # {}
              THEN GroupBySize(transform_active_data_to_long(Val(data)))
              ELSE populate_empty_records_pipeline_status_plot(
                       Range(Val(pipelines_dict).keys),
                       Range(PIPE_COMPLETE_STATUS_SHORT_DESC))
      IN [figure |-> plot_pipeline_status_by_records(status_counts),
          style |-> "block"]

\* ------------------------------------------------------------- page load

\* The layout as constructed, with the callbacks of the initial call
\* requested (those without prevent_initial_call).
Init ==
    /\ memory_filename = None
    /\ memory_sessions = None
    /\ memory_overview = None
    /\ memory_pipelines = None
    /\ upload_message = None
    /\ export_format = Some("none")
    /\ upload_contents = [i \in 1..Len(UPLOAD_BUTTONS) |-> None]
    /\ upload_filename = [i \in 1..Len(UPLOAD_BUTTONS) |-> None]
    /\ triggered = None
    /\ input_filename = None
    /\ filter_query = ""
    /\ session_value = SessNone
    /\ select_operator = "AND"
    /\ session_options = << >>
    /\ form_style = "none"
    /\ pipeline_dropdowns = << >>
    /\ tbl_columns = None
    /\ tbl_data = None
    /\ matching_participants = None
    /\ matching_records = None
    /\ fig_figure = EMPTY_FIGURE_PROPS
    /\ fig_style = "none"
    /\ pending = {"process_bagel", "update_session_filter", "update_outputs",
                  "update_matching_rows"}
    /\ nEvents = 0
    /\ lastFired = "init"
    /\ lastUpload = None
    /\ unprocessed = 0
    /\ filter_args = None
    /\ obs = None

Ready(cb) == cb \in pending /\ ~Blocked(cb, pending)

Idle == pending = {}

\* ------------------------------------------------------- callbacks firing

cb_process_bagel ==
    /\ Ready("process_bagel")
    /\ LET r == process_bagel(upload_contents, upload_filename, triggered)
           W == {"memory-sessions.data", "memory-overview.data",
                 "memory-pipelines.data", "upload-message.children"}
                \cup (IF r.filename = no_update THEN {}
                      ELSE {"memory-filename.data"})
                \cup (IF r.export_format = no_update THEN {}
                      ELSE {"interactive-datatable.export_format"})
           uploaded == \E i \in 1..Len(upload_contents) :
                           upload_contents[i] # None
       IN /\ memory_filename' = Apply(memory_filename, r.filename)
          /\ memory_sessions' = Apply(memory_sessions, r.sessions)
          /\ memory_overview' = Apply(memory_overview, r.overview)
          /\ memory_pipelines' = Apply(memory_pipelines, r.pipelines)
          /\ upload_message' = Apply(upload_message, r.message)
          /\ export_format' = Apply(export_format, r.export_format)
          /\ pending' = (pending \ {"process_bagel"}) \cup Triggered(W)
          /\ unprocessed' = IF uploaded THEN unprocessed - 1 ELSE unprocessed
          /\ \E keep \in BOOLEAN :
                obs' = IF keep \/ ~uploaded THEN obs
                       ELSE Some([upload |-> lastUpload, at |-> nEvents, out |-> r])
    /\ lastFired' = "process_bagel"
    /\ UNCHANGED <<uploads, selections, select_operator, form,
                   pipeline_dropdowns, table, counts, figure, nEvents,
                   lastUpload, filter_args>>

\* The new Upload components have no contents; process_bagel, which led to
\* this callback, is not requested again for them.
cb_reset_upload_buttons ==
    /\ Ready("reset_upload_buttons")
    /\ LET r == reset_upload_buttons(memory_filename)
       IN /\ upload_contents' = r.contents
          /\ upload_filename' = r.filename
    /\ pending' = (pending \ {"reset_upload_buttons"})
                  \cup Triggered(Outputs("reset_upload_buttons"))
    /\ lastFired' = "reset_upload_buttons"
    /\ UNCHANGED <<stores, triggered, selections, select_operator, form,
                   pipeline_dropdowns, table, counts, figure, history>>

cb_update_session_filter ==
    /\ Ready("update_session_filter")
    /\ LET r == update_session_filter(memory_overview, memory_sessions)
       IN /\ session_options' = r.options
          /\ form_style' = r.style
    /\ pending' = (pending \ {"update_session_filter"})
                  \cup Triggered(Outputs("update_session_filter"))
    /\ lastFired' = "update_session_filter"
    /\ UNCHANGED <<stores, uploads, selections, select_operator,
                   pipeline_dropdowns, table, counts, figure, history>>

\* Dropdowns added to or removed from the layout request the callbacks that
\* take their values as Input.
cb_create_pipeline_status_dropdowns ==
    /\ Ready("create_pipeline_status_dropdowns")
    /\ LET new == create_pipeline_status_dropdowns(memory_pipelines,
                                                   memory_overview)
           W == Outputs("create_pipeline_status_dropdowns")
                \cup (IF pipeline_dropdowns # << >> \/ new # << >>
                      THEN {"pipeline-status-dropdown.value"} ELSE {})
       IN /\ pipeline_dropdowns' = new
          /\ pending' = (pending \ {"create_pipeline_status_dropdowns"})
                        \cup Triggered(W)
    /\ lastFired' = "create_pipeline_status_dropdowns"
    /\ UNCHANGED <<stores, uploads, selections, select_operator, form,
                   table, counts, figure, history>>

\* The values of the status dropdowns as the layout holds them now.
StatusValues == [i \in 1..Len(pipeline_dropdowns) |-> pipeline_dropdowns[i].value]

cb_update_outputs ==
    /\ Ready("update_outputs")
    /\ LET r == update_outputs(memory_overview, session_value,
                               select_operator, StatusValues,
                               memory_pipelines)
       IN /\ tbl_columns' = r.columns
          /\ tbl_data' = r.data
          /\ filter_args' = r.passed
    /\ pending' = (pending \ {"update_outputs"})
                  \cup Triggered(Outputs("update_outputs")
                         \cup {"interactive-datatable.derived_virtual_data"})
    /\ lastFired' = "update_outputs"
    /\ UNCHANGED <<stores, uploads, selections, select_operator, form,
                   pipeline_dropdowns, counts, figure, nEvents, lastUpload,
                   unprocessed, obs>>

cb_update_matching_rows ==
    /\ Ready("update_matching_rows")
    /\ LET r == update_matching_rows(
                    tbl_columns, derived_virtual_data(tbl_data, filter_query))
       IN /\ matching_participants' = r.participants
          /\ matching_records' = r.records
    /\ pending' = (pending \ {"update_matching_rows"})
                  \cup Triggered(Outputs("update_matching_rows"))
    /\ lastFired' = "update_matching_rows"
    /\ UNCHANGED <<stores, uploads, selections, select_operator, form,
                   pipeline_dropdowns, table, figure, history>>

cb_reset_selections ==
    /\ Ready("reset_selections")
    /\ LET r == reset_selections(memory_filename)
       IN IF r.prevent_update
          THEN /\ UNCHANGED selections
               /\ pending' = pending \ {"reset_selections"}
          ELSE /\ input_filename' = r.input_filename
               /\ filter_query' = r.filter_query
               /\ session_value' = r.session_value
               /\ pending' =
                    (pending \ {"reset_selections"})
                    \cup Triggered(
                           Outputs("reset_selections")
                           \cup (IF filter_query # r.filter_query
                                 THEN {"interactive-datatable.derived_virtual_data"}
                                 ELSE {}))
    /\ lastFired' = "reset_selections"
    /\ UNCHANGED <<stores, uploads, select_operator, form,
                   pipeline_dropdowns, table, counts, figure, history>>

cb_update_overview_status_fig_for_records ==
    /\ Ready("update_overview_status_fig_for_records")
    /\ LET r == update_overview_status_fig_for_records(
                    tbl_data, memory_pipelines, memory_overview)
       IN /\ fig_figure' = r.figure
          /\ fig_style' = r.style
    /\ pending' = (pending \ {"update_overview_status_fig_for_records"})
                  \cup Triggered(Outputs("update_overview_status_fig_for_records"))
    /\ lastFired' = "update_overview_status_fig_for_records"
    /\ UNCHANGED <<stores, uploads, selections, select_operator, form,
                   pipeline_dropdowns, table, counts, history>>

\* ---------------------------------------------------------- user gestures

\* A gesture is made on the page at rest.
CanAct == Idle /\ nEvents < MaxEvents

\* The user picks file f with upload button b.  The Upload component reports
\* new contents only when they differ from the contents it holds.
UserUpload(b, f) ==
    /\ CanAct
    /\ nEvents' = nEvents + 1
    /\ lastUpload' = Some([btn |-> UPLOAD_BUTTONS[b], file |-> f])
    /\ unprocessed' = unprocessed + 1
    /\ IF upload_contents[b] # Some(Contents(f))
       THEN /\ upload_contents' = [upload_contents EXCEPT ![b] = Some(Contents(f))]
            /\ upload_filename' = [upload_filename EXCEPT ![b] = Some(f)]
            /\ triggered' = Some(UPLOAD_BUTTONS[b])
            /\ pending' = Triggered({"upload-data.contents"})
       ELSE UNCHANGED <<uploads, pending>>
    /\ lastFired' = "user_upload"
    /\ UNCHANGED <<stores, selections, select_operator, form,
                   pipeline_dropdowns, table, counts, figure, filter_args, obs>>

UserSelectSessions(S) ==
    /\ CanAct
    /\ form_style = "block"
    /\ S \subseteq Range(session_options)
    /\ session_value # SessList(S)
    /\ session_value' = SessList(S)
    /\ pending' = Triggered({"session-dropdown.value"})
    /\ nEvents' = nEvents + 1
    /\ lastFired' = "user_sessions"
    /\ UNCHANGED <<stores, uploads, input_filename, filter_query,
                   select_operator, form, pipeline_dropdowns, table, counts,
                   figure, lastUpload, unprocessed, filter_args, obs>>

UserSelectOperator(op) ==
    /\ CanAct
    /\ form_style = "block"
    /\ op # select_operator
    /\ select_operator' = op
    /\ pending' = Triggered({"select-operator.value"})
    /\ nEvents' = nEvents + 1
    /\ lastFired' = "user_operator"
    /\ UNCHANGED <<stores, uploads, selections, form, pipeline_dropdowns,
                   table, counts, figure, lastUpload, unprocessed,
                   filter_args, obs>>

UserSelectStatus(i, v) ==
    /\ CanAct
    /\ form_style = "block"
    /\ i \in 1..Len(pipeline_dropdowns)
    /\ pipeline_dropdowns[i].value # v
    /\ pipeline_dropdowns' = [pipeline_dropdowns EXCEPT ![i].value = v]
    /\ pending' = Triggered({"pipeline-status-dropdown.value"})
    /\ nEvents' = nEvents + 1
    /\ lastFired' = "user_status"
    /\ UNCHANGED <<stores, uploads, selections, select_operator, form,
                   table, counts, figure, lastUpload, unprocessed,
                   filter_args, obs>>

UserFilterQuery(q) ==
    /\ CanAct
    /\ tbl_columns # None
    /\ q # filter_query
    /\ filter_query' = q
    /\ pending' = Triggered({"interactive-datatable.filter_query",
                             "interactive-datatable.derived_virtual_data"})
    /\ nEvents' = nEvents + 1
    /\ lastFired' = "user_filter_query"
    /\ UNCHANGED <<stores, uploads, input_filename, session_value,
                   select_operator, form, pipeline_dropdowns, table, counts,
                   figure, lastUpload, unprocessed, filter_args, obs>>

StatusChoices ==
    {None} \cup {Some(PIPE_COMPLETE_STATUS_SHORT_DESC[i]) :
                    i \in 1..Len(PIPE_COMPLETE_STATUS_SHORT_DESC)}

Next ==
    \/ cb_process_bagel
    \/ cb_reset_upload_buttons
    \/ cb_update_session_filter
    \/ cb_create_pipeline_status_dropdowns
    \/ cb_update_outputs
    \/ cb_update_matching_rows
    \/ cb_reset_selections
    \/ cb_update_overview_status_fig_for_records
    \/ \E b \in 1..Len(UPLOAD_BUTTONS), f \in Files : UserUpload(b, f)
    \/ \E S \in SUBSET Range(session_options) : UserSelectSessions(S)
    \/ \E op \in {"AND", "OR"} : UserSelectOperator(op)
    \/ \E i \in 1..Len(pipeline_dropdowns), v \in StatusChoices :
           UserSelectStatus(i, v)
    \/ \E q \in FilterQueries : UserFilterQuery(q)

Spec == Init /\ [][Next]_vars

\* ================================================================ claims

\* The last upload: its button, its file, and what parsing it gives.
LastFile == Val(lastUpload).file
LastSchema == Val(lastUpload).btn.index
LastParse == parse_csv_contents(Contents(LastFile), LastFile, LastSchema)

\* The file of the last upload is reported with an error: the parser gives
\* an upload error, or building the overview raises.
LastFails ==
    \/ LastParse.upload_error # None
    \/ HasDuplicates(FileRows(LastFile))

LastReason ==
    IF LastParse.upload_error # None THEN Val(LastParse.upload_error)
    ELSE "Something went wrong while processing this file."

AfterUploadProcessed ==
    lastFired = "process_bagel" /\ lastUpload # None

\* C1: when process_bagel has run for an upload whose file has an upload
\* error or raises during processing, the session, overview and pipelines
\* stores are None, the message is 'Error: <reason> Please try again.', the
\* export format is 'none' and the file name store holds the uploaded file's
\* name; the callback has returned its six outputs (nothing escaped).
C1_ErrorIsReported ==
    (AfterUploadProcessed /\ LastFails) =>
        /\ memory_sessions = None
        /\ memory_overview = None
        /\ memory_pipelines = None
        /\ upload_message = Some("Error: " \o LastReason \o " Please try again.")
        /\ export_format = Some("none")
        /\ memory_filename = Some(LastFile)
        /\ unprocessed = 0

\* C1 witness: an upload that raised inside the try block, made after
\* another file had been stored, has been processed.
C1_Witness ==
    /\ AfterUploadProcessed
    /\ LastFile = "dup_bagel.csv" /\ LastSchema = "imaging"
    /\ memory_filename = Some("dup_bagel.csv")
    /\ tbl_data # None

\* C3: after reset_selections has run for a stored file name, the displayed
\* name is 'Input file: <filename>', the filter query is empty and the
\* session selection is empty; once an upload's callbacks have run the
\* displayed name is that of the uploaded file, whether or not the file was
\* parsed; with no file name stored the callback updates nothing.
C3_SelectionsReset ==
    /\ (lastFired = "reset_selections" /\ memory_filename # None) =>
          /\ input_filename = Some("Input file: " \o Val(memory_filename))
          /\ filter_query = ""
          /\ session_value = SessStr
    /\ (lastUpload # None /\ unprocessed = 0
        /\ "reset_selections" \notin pending) =>
          input_filename = Some("Input file: " \o LastFile)
    /\ reset_selections(None).prevent_update

\* C3 witness: the reset after a failed upload that followed a parsed one
\* (the table still shows the earlier file's data).
C3_Witness ==
    /\ lastFired = "reset_selections"
    /\ lastUpload # None /\ LastFails
    /\ memory_overview = None
    /\ input_filename = Some("Input file: " \o LastFile)
    /\ tbl_data # None

\* The stores an upload must leave:  the file's name, and either an error
\* and empty stores or the parsed sessions, overview and pipelines.
LastReflected ==
    /\ memory_filename = Some(LastFile)
    /\ IF LastFails
       THEN /\ memory_sessions = None /\ memory_overview = None
            /\ memory_pipelines = None /\ upload_message # None
       ELSE /\ memory_sessions = Some(Sessions(FileRows(LastFile)))
            /\ memory_overview # None
            /\ Val(memory_overview).type = LastSchema
            /\ {<<r.participant_id, r.session>> : r \in Val(memory_overview).data}
                 = {<<FileRows(LastFile)[i].participant_id,
                      FileRows(LastFile)[i].session>> :
                        i \in 1..Len(FileRows(LastFile))}
            /\ memory_pipelines # None
            /\ Val(memory_pipelines).keys = FilePipelines(LastFile)
            /\ upload_message = None

\* C4: with the page at rest every upload made has been processed by
\* process_bagel, the upload buttons hold no contents, and the stores are
\* those of the last upload.
C4_EveryUploadProcessed ==
    Idle =>
        /\ unprocessed = 0
        /\ lastUpload # None =>
              /\ LastReflected
              /\ \A i \in 1..Len(UPLOAD_BUTTONS) : upload_contents[i] = None

\* C4 witness: pheno_bagel.csv, then another file, then pheno_bagel.csv
\* again with the same button.
C4_Witness ==
    /\ Idle
    /\ nEvents = 3
    /\ lastUpload # None
    /\ LastFile = "pheno_bagel.csv" /\ LastSchema = "phenotypic"
    /\ obs # None
    /\ Val(obs).upload = lastUpload /\ Val(obs).at = 1
    /\ memory_overview # None

\* The outputs process_bagel has just written.
WrittenOutputs ==
    [filename |-> memory_filename, sessions |-> memory_sessions,
     overview |-> memory_overview, pipelines |-> memory_pipelines,
     message |-> upload_message, export_format |-> export_format]

C7_StoresAgree ==
    /\ \/ memory_sessions = None /\ memory_overview = None
          /\ memory_pipelines = None
       \/ memory_sessions # None /\ memory_overview # None
          /\ memory_pipelines # None
    /\ (unprocessed = 0 /\ lastFired # "init") =>
          /\ memory_overview # None <=> (lastUpload # None /\ ~LastFails)
          /\ memory_overview # None =>
                Val(memory_overview).type = LastSchema

\* C7 witness: a phenotypic file parsed from the phenotypic button.
C7_Witness ==
    /\ AfterUploadProcessed
    /\ memory_overview # None
    /\ Val(memory_overview).type = "phenotypic"
    /\ memory_sessions # None /\ memory_pipelines # None

\* No filter is set on the page: no session selected, no status selected
\* in any dropdown, nothing typed into the table's own filter.
NoDropdownFilter ==
    /\ ~Truthy(session_value)
    /\ \A i \in 1..Len(pipeline_dropdowns) : pipeline_dropdowns[i].value = None

\* The participants of the uploaded file.
LastParticipants ==
    {FileRows(LastFile)[i].participant_id : i \in 1..Len(FileRows(LastFile))}

\* C5: with no filter set, update_outputs hands the overview data to the
\* table as it is, and the participant count update_matching_rows shows is
\* the number of distinct participants of the uploaded file; with no columns
\* in the table both counts are the empty string.
C5_UnfilteredCount ==
    /\ (lastFired = "update_outputs" /\ memory_overview # None
        /\ NoDropdownFilter) =>
          tbl_data = Some(Val(memory_overview).data)
    /\ lastFired = "update_matching_rows" =>
          IF tbl_columns # None /\ Val(tbl_columns) # {}
          THEN (NoDropdownFilter /\ filter_query = "") =>
                  matching_participants =
                      Some("Participants matching filter: "
                           \o ToString(Cardinality(LastParticipants)))
          ELSE matching_participants = Some("") /\ matching_records = Some("")

\* C5 witness: the counts shown for the unfiltered table of a file with
\* fewer participants than records.
C5_Witness ==
    /\ lastFired = "update_matching_rows"
    /\ tbl_columns # None /\ Val(tbl_columns) # {}
    /\ NoDropdownFilter /\ filter_query = ""
    /\ matching_participants = Some("Participants matching filter: 2")
    /\ matching_records = Some("Records matching filter: 3")

\* The records count the figure shows for a pipeline and a status.
FigCount(pl, st) ==
    LET hit == {e \in fig_figure.data :
                    e.pipeline_name = pl /\ e.pipeline_complete = st}
    IN IF hit = {} THEN 0 ELSE (CHOOSE e \in hit : TRUE).records

AllStatuses == Range(PIPE_COMPLETE_STATUS_SHORT_DESC)

\* C9: after update_overview_status_fig_for_records has run, the figure is
\* hidden and empty when the table has no data or the dataset is
\* phenotypic; otherwise it is shown and, for a table with rows, its count
\* for each pipeline and status is the number of distinct
\* participant-session pairs of the table data with that status for that
\* pipeline, and for a table without rows it holds a count of zero for
\* every pipeline of the pipelines store and every status.
C9_FigureCounts ==
    lastFired = "update_overview_status_fig_for_records" =>
        IF tbl_data = None \/ Val(memory_overview).type = "phenotypic"
        THEN fig_figure = EMPTY_FIGURE_PROPS /\ fig_style = "none"
        ELSE /\ fig_style = "block"
             /\ IF Val(tbl_data) # {}
                THEN /\ \A pl \in Range(Val(memory_pipelines).keys),
                           st \in AllStatuses :
                           FigCount(pl, st) =
                             Cardinality({<<r.participant_id, r.session>> :
                                 r \in {q \in Val(tbl_data) : q.st[pl] = st}})
                     /\ \A e \in fig_figure.data :
                           e.pipeline_name \in Range(Val(memory_pipelines).keys)
                ELSE fig_figure.data =
                       {[pipeline_name |-> pl, pipeline_complete |-> st,
                         records |-> 0] :
                           pl \in Range(Val(memory_pipelines).keys),
                           st \in AllStatuses}

\* C9 witness: the figure of a table filtered by a status dropdown, holding
\* two records of one participant with the same status.
C9_Witness ==
    /\ lastFired = "update_overview_status_fig_for_records"
    /\ filter_args # None
    /\ fig_style = "block"
    /\ FigCount("A", "SUCCESS") = 2
    /\ FigCount("B", "FAIL") = 1

\* The status selected in the dropdown of pipeline pl, None when there is
\* no such dropdown or nothing is selected in it.
SelectedStatus(pl) ==
    LET hit == {i \in 1..Len(pipeline_dropdowns) :
                    pipeline_dropdowns[i].index = pl}
    IN IF hit = {} THEN None
       ELSE pipeline_dropdowns[CHOOSE i \in hit : TRUE].value

\* A record has, for every pipeline with a status selected in its dropdown,
\* that status.
MatchesSelected(r) ==
    \A i \in 1..Len(pipeline_dropdowns) :
        pipeline_dropdowns[i].value # None =>
            /\ pipeline_dropdowns[i].index \in DOMAIN r.st
            /\ r.st[pipeline_dropdowns[i].index] = Val(pipeline_dropdowns[i].value)

\* C2: the operator starts as AND; update_outputs gives filter_records the
\* selected sessions, the operator and each dropdown's status under that
\* dropdown's pipeline; and with sessions selected the table keeps, under
\* AND, only records of participants who have every selected session with
\* the selected statuses, and under OR only records of a selected session
\* with the selected statuses.
C2_FilterSemantics ==
    /\ lastFired = "init" => select_operator = "AND"
    /\ (lastFired = "update_outputs" /\ filter_args # None) =>
          /\ Val(filter_args).session_values = session_value
          /\ Val(filter_args).operator_value = select_operator
          /\ \A pl \in DOMAIN Val(filter_args).status_values :
                Val(filter_args).status_values[pl] = SelectedStatus(pl)
          /\ \A i \in 1..Len(pipeline_dropdowns) :
                pipeline_dropdowns[i].value # None =>
                    pipeline_dropdowns[i].index
                        \in DOMAIN Val(filter_args).status_values
          /\ Truthy(session_value) =>
                \A r \in Val(tbl_data) :
                    IF select_operator = "AND"
                    THEN \A ses \in session_value.val :
                            \E q \in Val(memory_overview).data :
                                /\ q.participant_id = r.participant_id
                                /\ q.session = ses
                                /\ MatchesSelected(q)
                    ELSE r.session \in session_value.val /\ MatchesSelected(r)

\* C8: whenever update_outputs calls filter_records, the status it passes
\* for a pipeline is the one selected in that pipeline's dropdown, and every
\* status selected in a dropdown is passed for that dropdown's pipeline.
C8_DropdownOrder ==
    (lastFired = "update_outputs" /\ filter_args # None) =>
        /\ \A pl \in DOMAIN Val(filter_args).status_values :
              Val(filter_args).status_values[pl] = SelectedStatus(pl)
        /\ \A i \in 1..Len(pipeline_dropdowns) :
              pipeline_dropdowns[i].value # None =>
                  /\ pipeline_dropdowns[i].index
                         \in DOMAIN Val(filter_args).status_values
                  /\ Val(filter_args).status_values[pipeline_dropdowns[i].index]
                         = pipeline_dropdowns[i].value

====
